---- MODULE Spec2Model ----
(***************************************************************************)
(* Model of src/commands/_common.ts: exists, getSettingsFromJSON and       *)
(* getSettings (with its inner tryRequire).                                *)
(*                                                                         *)
(* Strings the code inspects or concatenates (paths, error messages) are   *)
(* sequences of tokens; a path is a sequence of one-character tokens so    *)
(* that String.prototype.endsWith is computed, not assumed.                *)
(*                                                                         *)
(* getSettings is an async function: it suspends at every `await`, and the *)
(* filesystem can change while it is suspended.  One action models the     *)
(* code from one await's completion up to the next suspension.             *)
(***************************************************************************)
EXTENDS Naturals, Sequences, FiniteSets

VARIABLES
  fs,          \* filesystem: absolute path -> file state
  registry,    \* the runtime's module map of import(): href -> loaded module
  configFile,  \* options.configFile of the process (null when not given)
  pc,          \* where the running getSettings call is suspended
  cur,         \* the candidate path the call is probing or loading
  probed,      \* history: the exists() calls of the running call, in order
  lastAccess,  \* history: outcome of the fsp.access of the latest exists()
  loads,       \* history: the loader invocations of the running call
  result       \* how the running call settled

vars == <<fs, registry, configFile, pc, cur, probed, lastAccess, loads, result>>

----------------------------------------------------------------------------
(* Paths *)

cwd == <<"/", "w">>

null == <<"null">>

DEFAULT_GMRC_PATH == cwd \o <<"/", ".", "g", "m", "r", "c">>

DEFAULT_GMRCJS_PATH == DEFAULT_GMRC_PATH \o <<".", "j", "s">>

DEFAULT_GMRC_COMMONJS_PATH == DEFAULT_GMRC_PATH \o <<".", "c", "j", "s">>

DefaultPaths ==
  {DEFAULT_GMRC_PATH, DEFAULT_GMRCJS_PATH, DEFAULT_GMRC_COMMONJS_PATH}

\* The values of --config the model draws from: each of the three code
\* suffixes, no suffix, a data suffix, a differently-cased code suffix and a
\* name that ends in "js" without the dot.
ExplicitPaths ==
  { <<"a", ".", "j", "s">>,
    <<"a", ".", "c", "j", "s">>,
    <<"a", ".", "m", "j", "s">>,
    <<"a">>,
    <<"a", ".", "j", "s", "o", "n">>,
    <<"a", ".", "J", "S">>,
    <<"a", "j", "s">> }

endsWith(s, suffix) ==
  /\ Len(s) >= Len(suffix)
  /\ SubSeq(s, Len(s) - Len(suffix) + 1, Len(s)) = suffix

\* path.resolve(process.cwd(), path) for the paths of the model (no "." or
\* ".." segments to normalise).
resolve(base, path) ==
  IF path[1] = "/" THEN path ELSE base \o <<"/">> \o path

pathToFileURL(abs) == [href |-> <<"file://">> \o abs]

AbsPaths == {resolve(cwd, p) : p \in DefaultPaths \cup ExplicitPaths}

Hrefs == {pathToFileURL(a).href : a \in AbsPaths}

----------------------------------------------------------------------------
(* The filesystem and the runtime, as far as the code observes them *)

\* What a path holds: nothing, relaxed-JSON text of settings A or B, or an
\* ES module that default-exports A, has no default export, or throws while
\* it is evaluated.
FileStates == {"absent", "json5_A", "json5_B", "esm_A", "esm_none", "esm_throw"}

undefined == "undefined"

SettingsValues == {"A", "B", undefined}

\* fsp.access(path, F_OK): rejects with ENOENT when nothing is there; an
\* entry that is there can still be invisible to us (EACCES on a parent
\* directory) or fail otherwise (ELOOP, EIO, ...).
accessOutcomes(state) ==
  IF state = "absent" THEN {"ENOENT"} ELSE {"ok", "EACCES", "EIO"}

ErrorObject(msg, stk) == [isError |-> TRUE, message |-> msg, stack |-> stk]

\* The error slot of an outcome that carries no error.
NoError == ErrorObject(<<>>, <<>>)

\* fsp.readFile(path, "utf8")
readFileOutcomes(state) ==
  IF state = "absent"
  THEN {[ok |-> FALSE, data |-> "none",
         error |-> ErrorObject(<<"ENOENT: no such file or directory">>, <<>>)]}
  ELSE {[ok |-> TRUE, data |-> state, error |-> NoError],
        [ok |-> FALSE, data |-> "none",
         error |-> ErrorObject(<<"EACCES: permission denied">>, <<>>)]}

\* JSON5.parse(text)
JSON5parse(text) ==
  CASE text = "json5_A" -> [ok |-> TRUE, value |-> "A", error |-> NoError]
    [] text = "json5_B" -> [ok |-> TRUE, value |-> "B", error |-> NoError]
    [] OTHER -> [ok |-> FALSE, value |-> "none",
                 error |-> ErrorObject(<<"JSON5: invalid character">>, <<>>)]

\* An entry of the module map: nothing yet, a module that was loaded (with
\* the file state it was loaded from), or a load that failed.
NoModule ==
  [status |-> "none", hasDefault |-> FALSE, default |-> "none",
   source |-> "none", error |-> NoError]

Module(hasDefault, default, source) ==
  [status |-> "loaded", hasDefault |-> hasDefault, default |-> default,
   source |-> source, error |-> NoError]

FailedModule(error) ==
  [status |-> "failed", hasDefault |-> FALSE, default |-> "none",
   source |-> "none", error |-> error]

\* Loading and evaluating the file at a reference for the first time.
loadModule(state) ==
  CASE state = "esm_A" -> [ok |-> TRUE, module |-> Module(TRUE, "A", state),
                           error |-> NoError]
    [] state = "esm_none" ->
         [ok |-> TRUE, module |-> Module(FALSE, "none", state),
          error |-> NoError]
    [] state = "esm_throw" ->
         [ok |-> FALSE, module |-> NoModule,
          error |-> ErrorObject(<<"boom">>,
                                <<"Error: boom", "\n", "    at file">>)]
    [] state = "absent" ->
         [ok |-> FALSE, module |-> NoModule,
          error |-> ErrorObject(<<"Cannot find module">>,
                                <<"Error: Cannot find module", "\n", "    at load">>)]
    [] OTHER ->
         [ok |-> FALSE, module |-> NoModule,
          error |-> ErrorObject(<<"Unexpected token">>,
                                <<"SyntaxError: Unexpected token">>)]

\* Mutant of import: every call loads the file again.
import_reload(reg, href, state) == loadModule(state)

\* import(href): a module that was loaded under this reference before is
\* returned from the module map and the file is not read again; a load the
\* runtime remembers as failed rejects with the same error again.
import(reg, href, state) ==
  CASE reg[href].status = "loaded" ->
         [ok |-> TRUE, module |-> reg[href], error |-> NoError]
    [] reg[href].status = "failed" ->
         [ok |-> FALSE, module |-> NoModule, error |-> reg[href].error]
    [] OTHER -> loadModule(state)

\* The module map after import(href) settled.  A module that loaded stays;
\* whether a failed load of a file that is there is remembered is up to the
\* runtime (remember), a file that was not found is looked up again.
registryAfter(reg, href, state, imported, remember) ==
  IF reg[href].status # "none" THEN reg
  ELSE IF imported.ok THEN [reg EXCEPT ![href] = imported.module]
  ELSE IF remember /\ state # "absent"
       THEN [reg EXCEPT ![href] = FailedModule(imported.error)]
       ELSE reg

\* module.default
defaultOf(module) == IF module.hasDefault THEN module.default ELSE undefined

----------------------------------------------------------------------------
(* Settlements of an async function *)

Pending == [kind |-> "pending", value |-> "none", message |-> <<>>]

Return(v) == [kind |-> "return", value |-> v, message |-> <<>>]

Throw(msg) == [kind |-> "throw", value |-> "none", message |-> msg]

\* e instanceof Error ? e.message : String(e)
messageOf(e) == IF e.isError THEN e.message ELSE <<"[object Object]">>

\* s.replace(/\n/g, "\n    ")
reindent(s) == [i \in DOMAIN s |-> IF s[i] = "\n" THEN "\n    " ELSE s[i]]

\* e instanceof Error && e.stack ? e.stack.replace(...) : String(e)
stackOf(e) ==
  IF e.isError /\ e.stack # <<>> THEN reindent(e.stack) ELSE messageOf(e)

----------------------------------------------------------------------------
(* The functions of _common.ts *)

\* Mutant of exists: only "not found" is swallowed, other failures escape.
exists_rethrow(accessOutcome) ==
  IF accessOutcome = "ok"
  THEN [kind |-> "return", value |-> TRUE, error |-> "none"]
  ELSE IF accessOutcome = "ENOENT"
       THEN [kind |-> "return", value |-> FALSE, error |-> "none"]
       ELSE [kind |-> "throw", value |-> FALSE, error |-> accessOutcome]

\* exists(path), given how fsp.access settled
exists(accessOutcome) ==
  IF accessOutcome = "ok"
  THEN [kind |-> "return", value |-> TRUE, error |-> "none"]
  ELSE [kind |-> "return", value |-> FALSE, error |-> "none"]

\* Mutant of getSettingsFromJSON: one try block around the read and the
\* parse, so a failed read is reported as a failed parse.
getSettingsFromJSON_oneTry(path, read) ==
  IF ~read.ok
  THEN [settled |-> Throw(<<"Failed to parse '">> \o path \o <<"': ">>
                          \o messageOf(read.error)),
        parsed |-> FALSE]
  ELSE LET parsed == JSON5parse(read.data) IN
       IF parsed.ok
       THEN [settled |-> Return(parsed.value), parsed |-> TRUE]
       ELSE [settled |-> Throw(<<"Failed to parse '">> \o path \o <<"': ">>
                               \o messageOf(parsed.error)),
             parsed |-> TRUE]

\* getSettingsFromJSON(path), given how fsp.readFile settled: how it settles
\* and whether it called JSON5.parse.
getSettingsFromJSON(path, read) ==
  IF ~read.ok
  THEN [settled |-> Throw(<<"Failed to read '">> \o path \o <<"': ">>
                          \o messageOf(read.error)),
        parsed |-> FALSE]
  ELSE LET parsed == JSON5parse(read.data) IN
       IF parsed.ok
       THEN [settled |-> Return(parsed.value), parsed |-> TRUE]
       ELSE [settled |-> Throw(<<"Failed to parse '">> \o path \o <<"': ">>
                               \o messageOf(parsed.error)),
             parsed |-> TRUE]

relativePath(path) == pathToFileURL(resolve(cwd, path)).href

\* Mutant of tryRequire: the error names the path as given, not the
\* resolved reference.
tryRequire_rawPath(path, imported) ==
  IF imported.ok
  THEN Return(defaultOf(imported.module))
  ELSE Throw(<<"Failed to import '">> \o path
             \o <<"'; error:", "\n    ">> \o stackOf(imported.error))

\* tryRequire(path), given how import(relativePath) settled
tryRequire(path, imported) ==
  IF imported.ok
  THEN Return(defaultOf(imported.module))
  ELSE Throw(<<"Failed to import '">> \o relativePath(path)
             \o <<"'; error:", "\n    ">> \o stackOf(imported.error))

Goto(p, c) == [pc |-> p, cur |-> c, result |-> Pending]

Fail(c, msg) == [pc |-> "done", cur |-> c, result |-> Throw(msg)]

\* The grave accent character, which the string syntax here cannot hold.
Backquote == "U+0060"

NoGmrcMessage ==
  <<"No .gmrc file found; please run ", Backquote, "graphile-migrate init",
    Backquote, " first.">>

\* Mutant of hasCodeSuffix: only ".js" is recognised.
hasCodeSuffix_jsOnly(cf) == endsWith(cf, <<".", "j", "s">>)

\* The condition that sends an explicit configFile to tryRequire.
hasCodeSuffix(cf) ==
  \/ endsWith(cf, <<".", "j", "s">>)
  \/ endsWith(cf, <<".", "c", "j", "s">>)
  \/ endsWith(cf, <<".", "m", "j", "s">>)

\* Mutant of explicitBranch: the suffix is looked at before the existence
\* check, so a missing code file goes to the loader.
explicitBranch_suffixFirst(cf, found) ==
  IF hasCodeSuffix(cf) THEN Goto("import", cf)
  ELSE IF ~found
       THEN Fail(cf, <<"Failed to import '">> \o cf \o <<"': file not found">>)
       ELSE Goto("readFile", cf)

\* getSettings with a configFile, from the completion of
\* `await exists(configFile)` to the next await or throw.
explicitBranch(cf, found) ==
  IF ~found
  THEN Fail(cf, <<"Failed to import '">> \o cf \o <<"': file not found">>)
  ELSE IF hasCodeSuffix(cf)
       THEN Goto("import", cf)
       ELSE Goto("readFile", cf)

\* Mutant of defaultBranch: the code-style defaults are still probed after
\* the plain default matched.
defaultBranch_probeAll(c, found) ==
  IF c = DEFAULT_GMRC_PATH
  THEN Goto("exists", DEFAULT_GMRCJS_PATH)
  ELSE IF c = DEFAULT_GMRCJS_PATH
  THEN IF found THEN Goto("import", DEFAULT_GMRCJS_PATH)
                ELSE Goto("exists", DEFAULT_GMRC_COMMONJS_PATH)
  ELSE IF found THEN Goto("import", DEFAULT_GMRC_COMMONJS_PATH)
                ELSE Goto("readFile", DEFAULT_GMRC_PATH)

\* Mutant of defaultBranch: the last default is imported without looking
\* at its probe, so the final else is never reached.
defaultBranch_noElse(c, found) ==
  IF c = DEFAULT_GMRC_PATH
  THEN IF found THEN Goto("readFile", DEFAULT_GMRC_PATH)
                ELSE Goto("exists", DEFAULT_GMRCJS_PATH)
  ELSE IF c = DEFAULT_GMRCJS_PATH
  THEN IF found THEN Goto("import", DEFAULT_GMRCJS_PATH)
                ELSE Goto("exists", DEFAULT_GMRC_COMMONJS_PATH)
  ELSE Goto("import", DEFAULT_GMRC_COMMONJS_PATH)

\* getSettings without a configFile, from the completion of
\* `await exists(c)` for the default c to the next await or throw.
defaultBranch(c, found) ==
  IF c = DEFAULT_GMRC_PATH
  THEN IF found THEN Goto("readFile", DEFAULT_GMRC_PATH)
                ELSE Goto("exists", DEFAULT_GMRCJS_PATH)
  ELSE IF c = DEFAULT_GMRCJS_PATH
  THEN IF found THEN Goto("import", DEFAULT_GMRCJS_PATH)
                ELSE Goto("exists", DEFAULT_GMRC_COMMONJS_PATH)
  ELSE IF found THEN Goto("import", DEFAULT_GMRC_COMMONJS_PATH)
                ELSE Fail(c, NoGmrcMessage)

\* The if/else-if chain of getSettings: cf is options.configFile, c the path
\* whose probe just completed.
getSettingsBranch(cf, c, found) ==
  IF cf # null THEN explicitBranch(cf, found) ELSE defaultBranch(c, found)

\* Mutant of getSettingsSettle: when the loader of a default fails, the
\* next default is tried.
getSettingsSettle_fallback(cf, c, settled) ==
  IF cf = null /\ settled.kind = "throw" /\ c # DEFAULT_GMRC_COMMONJS_PATH
  THEN Goto("exists", IF c = DEFAULT_GMRC_PATH THEN DEFAULT_GMRCJS_PATH
                      ELSE DEFAULT_GMRC_COMMONJS_PATH)
  ELSE [pc |-> "done", cur |-> c, result |-> settled]

\* Mutant of getSettingsSettle: a loader that produced undefined is replaced
\* by the settings of the plain default (value B here).
getSettingsSettle_substitute(cf, c, settled) ==
  IF settled.kind = "return" /\ settled.value = undefined
  THEN [pc |-> "done", cur |-> c, result |-> Return("B")]
  ELSE [pc |-> "done", cur |-> c, result |-> settled]

\* `return await getSettingsFromJSON(c)` and `return tryRequire(c)`: when
\* the loader settles, getSettings settles the same way.
getSettingsSettle(cf, c, settled) == [pc |-> "done", cur |-> c, result |-> settled]

\* The first path getSettings probes.
firstCandidate(cf) == IF cf # null THEN cf ELSE DEFAULT_GMRC_PATH

----------------------------------------------------------------------------
(* The state machine *)

\* The files a process with this --config can ever touch, plus the plain
\* default; the rest of the disk is not modelled.
Watched(cf) ==
  IF cf = null THEN DefaultPaths ELSE {resolve(cwd, cf), DEFAULT_GMRC_PATH}

Init ==
  /\ configFile \in ExplicitPaths \cup {null}
  /\ fs = [p \in AbsPaths |-> "absent"]
  /\ registry = [h \in Hrefs |-> NoModule]
  /\ pc = "idle"
  /\ cur = null
  /\ probed = <<>>
  /\ lastAccess = "none"
  /\ loads = <<>>
  /\ result = Pending

\* Something outside the program creates, rewrites or removes a file.
FsChange ==
  /\ \E p \in Watched(configFile), s \in FileStates :
       /\ fs[p] # s
       /\ fs' = [fs EXCEPT ![p] = s]
  /\ UNCHANGED <<registry, configFile, pc, cur, probed, lastAccess, loads, result>>

\* getSettings(options) is called; it runs to its first `await exists(...)`.
Call ==
  /\ pc \in {"idle", "done"}
  /\ pc' = "exists"
  /\ cur' = firstCandidate(configFile)
  /\ probed' = <<>>
  /\ lastAccess' = "none"
  /\ loads' = <<>>
  /\ result' = Pending
  /\ UNCHANGED <<fs, registry, configFile>>

\* `await exists(cur)` completes and getSettings runs to its next await.
ExistsStep ==
  /\ pc = "exists"
  /\ \E o \in accessOutcomes(fs[resolve(cwd, cur)]) :
       LET r == exists(o) IN
       /\ lastAccess' = o
       /\ probed' = Append(probed, [path |-> cur, ret |-> r])
       /\ IF r.kind = "throw"
          THEN /\ pc' = "done"
               /\ cur' = cur
               /\ result' = Throw(<<r.error>>)
          ELSE LET n == getSettingsBranch(configFile, cur, r.value) IN
               /\ pc' = n.pc
               /\ cur' = n.cur
               /\ result' = n.result
  /\ UNCHANGED <<fs, registry, configFile, loads>>

\* `await fsp.readFile(cur)` completes inside getSettingsFromJSON, which
\* parses and settles, and getSettings continues from there.
ReadStep ==
  /\ pc = "readFile"
  /\ \E read \in readFileOutcomes(fs[resolve(cwd, cur)]) :
       LET r == getSettingsFromJSON(cur, read)
           n == getSettingsSettle(configFile, cur, r.settled)
       IN /\ loads' = Append(loads, [loader |-> "getSettingsFromJSON",
                                     path |-> cur,
                                     readOk |-> read.ok,
                                     parsed |-> r.parsed,
                                     noDefault |-> FALSE,
                                     cached |-> "none",
                                     onDisk |-> fs[resolve(cwd, cur)],
                                     produced |-> r.settled])
          /\ pc' = n.pc
          /\ cur' = n.cur
          /\ result' = n.result
  /\ UNCHANGED <<fs, registry, configFile, probed, lastAccess>>

\* `await import(relativePath)` completes inside tryRequire, which settles,
\* and getSettings continues from there.
ImportStep ==
  /\ pc = "import"
  /\ \E remember \in BOOLEAN :
       LET href == relativePath(cur)
           state == fs[resolve(cwd, cur)]
           imported == import(registry, href, state)
           r == tryRequire(cur, imported)
           n == getSettingsSettle(configFile, cur, r)
       IN /\ loads' = Append(loads, [loader |-> "tryRequire",
                                     path |-> cur,
                                     readOk |-> imported.ok,
                                     parsed |-> FALSE,
                                     noDefault |-> imported.ok /\
                                                   ~imported.module.hasDefault,
                                     cached |-> registry[href].status,
                                     onDisk |-> state,
                                     produced |-> r])
          /\ registry' = registryAfter(registry, href, state, imported, remember)
          /\ pc' = n.pc
          /\ cur' = n.cur
          /\ result' = n.result
  /\ UNCHANGED <<fs, configFile, probed, lastAccess>>

Next == FsChange \/ Call \/ ExistsStep \/ ReadStep \/ ImportStep

Spec == Init /\ [][Next]_vars

----------------------------------------------------------------------------
(* Properties *)

HasPrefix(s, prefix) ==
  /\ Len(s) >= Len(prefix)
  /\ SubSeq(s, 1, Len(prefix)) = prefix

DefaultOrder ==
  <<DEFAULT_GMRC_PATH, DEFAULT_GMRCJS_PATH, DEFAULT_GMRC_COMMONJS_PATH>>

\* The i-th exists() of the running call returned true.
Found(i) == probed[i].ret.kind = "return" /\ probed[i].ret.value = TRUE

LastFound == probed # <<>> /\ Found(Len(probed))

\* C1: without a configFile the defaults are probed one at a time in the
\* order .gmrc, .gmrc.js, .gmrc.cjs; every probe before the last returned
\* false; a load happens only on the default whose probe returned true, with
\* getSettingsFromJSON for .gmrc and tryRequire for the other two; and when
\* the probe of .gmrc returned true, tryRequire is never invoked.
C1_DefaultPrecedence ==
  configFile = null =>
    /\ Len(probed) <= 3
    /\ \A i \in DOMAIN probed :
         /\ probed[i].path = DefaultOrder[i]
         /\ i < Len(probed) => ~Found(i)
    /\ Len(loads) <= 1
    /\ \A k \in DOMAIN loads :
         /\ LastFound
         /\ loads[k].path = probed[Len(probed)].path
         /\ loads[k].loader = IF loads[k].path = DEFAULT_GMRC_PATH
                              THEN "getSettingsFromJSON" ELSE "tryRequire"
    /\ LastFound =>
         /\ pc \in {"readFile", "import", "done"}
         /\ pc = "done" => Len(loads) = 1
    /\ (probed # <<>> /\ Found(1)) =>
         /\ pc # "import"
         /\ \A k \in DOMAIN loads : loads[k].loader # "tryRequire"

\* C1 witness: all three defaults are on disk and the call loaded .gmrc only.
C1_Witness ==
  /\ configFile = null
  /\ pc = "done"
  /\ \A d \in DefaultPaths : fs[d] # "absent"
  /\ Len(probed) = 1 /\ Found(1)
  /\ Len(loads) = 1 /\ loads[1].path = DEFAULT_GMRC_PATH

\* C2: when the probe of an explicit configFile returns false, getSettings
\* throws "Failed to import '<configFile>': file not found" naming the path
\* as given, whatever its suffix; no loader runs and nothing else is probed.
C2_ExplicitNotFound ==
  (configFile # null /\ probed # <<>> /\ ~Found(1)) =>
    /\ pc = "done"
    /\ result = Throw(<<"Failed to import '">> \o configFile
                      \o <<"': file not found">>)
    /\ loads = <<>>
    /\ Len(probed) = 1
    /\ probed[1].path = configFile

\* C2 witness: a missing .mjs configFile failed while the plain default
\* holds loadable settings.
C2_Witness ==
  /\ configFile = <<"a", ".", "m", "j", "s">>
  /\ pc = "done"
  /\ probed # <<>> /\ ~Found(1)
  /\ fs[resolve(cwd, configFile)] = "absent"
  /\ fs[DEFAULT_GMRC_PATH] = "json5_A"
  /\ result.kind = "throw"

CodeSuffixes ==
  {<<".", "j", "s">>, <<".", "c", "j", "s">>, <<".", "m", "j", "s">>}

ExpectedHref(path) ==
  <<"file://">> \o (IF path \in DefaultPaths THEN path
                    ELSE <<"/", "w", "/">> \o path)

ImportErrorPrefix(path) ==
  <<"Failed to import '">> \o ExpectedHref(path) \o <<"'; error:">>

\* C4 as claimed: tryRequire makes getSettings throw "Failed to import
\* '<reference>'; error: ..." when the import rejects and also when the
\* module loaded without a default export.
C4_Original ==
  (pc = "done" /\ loads # <<>> /\ loads[1].loader = "tryRequire"
     /\ (~loads[1].readOk \/ loads[1].noDefault)) =>
    /\ result.kind = "throw"
    /\ HasPrefix(result.message, ImportErrorPrefix(loads[1].path))

\* C4 amended: getSettings throws "Failed to import '<reference>'; error:
\* ..." exactly when the import rejects; a module that loaded is never an
\* error, and one without a default export makes getSettings return
\* undefined.
C4_ImportFailureOnly ==
  (pc = "done" /\ loads # <<>> /\ loads[1].loader = "tryRequire") =>
    /\ ~loads[1].readOk =>
         /\ result.kind = "throw"
         /\ HasPrefix(result.message, ImportErrorPrefix(loads[1].path))
    /\ loads[1].readOk => result.kind = "return"
    /\ loads[1].noDefault => result = Return(undefined)

\* C4 witness: a module without a default export was imported and the call
\* returned undefined.
C4_Witness ==
  /\ pc = "done"
  /\ loads # <<>>
  /\ loads[1].loader = "tryRequire"
  /\ loads[1].noDefault
  /\ result = Return(undefined)

NoneFound == Len(probed) = 3 /\ \A i \in DOMAIN probed : ~Found(i)

\* C5 as claimed: without a configFile and with no default found,
\* getSettings throws exactly "No .gmrc file found; please run the init
\* command first." and no loader runs.
C5_Original ==
  (configFile = null /\ NoneFound) =>
    /\ pc = "done"
    /\ result = Throw(<<"No .gmrc file found; please run ",
                        "the init command", " first.">>)
    /\ loads = <<>>

\* C5 amended: without a configFile and with no default found, getSettings
\* throws exactly "No .gmrc file found; please run (grave accent)
\* graphile-migrate init (grave accent) first." and no loader runs.
C5_NoGmrc ==
  (configFile = null /\ NoneFound) =>
    /\ pc = "done"
    /\ result = Throw(<<"No .gmrc file found; please run ", "U+0060",
                        "graphile-migrate init", "U+0060", " first.">>)
    /\ loads = <<>>

\* C5 witness: a call without configFile probed all three defaults, found
\* none and failed.
C5_Witness ==
  /\ configFile = null
  /\ pc = "done"
  /\ NoneFound
  /\ result.kind = "throw"

\* How a load that reads the file anew can settle, given what the file held
\* when the loader ran.
FreshOutcomes(load) ==
  IF load.loader = "getSettingsFromJSON"
  THEN {getSettingsFromJSON(load.path, read).settled :
          read \in readFileOutcomes(load.onDisk)}
  ELSE {tryRequire(load.path, loadModule(load.onDisk))}

\* C6 as claimed: nothing is cached between calls, so a call that ran a
\* loader settles as a fresh load of what the file held during that call.
C6_Original ==
  (pc = "done" /\ loads # <<>>) => result \in FreshOutcomes(loads[1])

\* C6 amended: every call probes again and getSettingsFromJSON reads the
\* file again, so a data file changed between two calls is seen by the
\* second; tryRequire reads the file only when the reference was not
\* imported before, and once a reference was imported successfully every
\* later call returns the default export of that first load, whatever the
\* file holds now.
C6_CachedModules ==
  (pc = "done" /\ loads # <<>>) =>
    LET load == loads[1]
        entry == registry[ExpectedHref(load.path)]
    IN /\ probed # <<>>
       /\ load.loader = "getSettingsFromJSON" => result \in FreshOutcomes(load)
       /\ (load.loader = "tryRequire" /\ load.cached = "none") =>
            result \in FreshOutcomes(load)
       /\ (load.loader = "tryRequire" /\ load.cached = "loaded") =>
            /\ entry.status = "loaded"
            /\ result = tryRequire(load.path, loadModule(entry.source))

\* C6 witness: a module that exported A was imported by an earlier call,
\* the file was rewritten to a module without default export, and the call
\* still returned A.
C6_Witness ==
  /\ pc = "done"
  /\ loads # <<>>
  /\ loads[1].loader = "tryRequire"
  /\ loads[1].cached = "loaded"
  /\ loads[1].onDisk = "esm_none"
  /\ result = Return("A")

\* C7: a call runs at most one loader, on the explicit configFile or on the
\* default whose probe returned true; it is pending until it settles, and a
\* returned value is exactly what that loader produced.
C7_SingleOutcome ==
  /\ Len(loads) <= 1
  /\ pc = "done" <=> result.kind \in {"return", "throw"}
  /\ pc # "done" => (result = Pending /\ loads = <<>>)
  /\ result.kind = "return" =>
       /\ Len(loads) = 1
       /\ result = loads[1].produced
       /\ result.value \in SettingsValues
       /\ LastFound
       /\ loads[1].path = probed[Len(probed)].path
       /\ loads[1].path = IF configFile # null THEN configFile
                          ELSE DefaultOrder[Len(probed)]

\* C7 witness: .gmrc held B and .gmrc.js a module exporting A; the call
\* returned B alone.
C7_Witness ==
  /\ configFile = null
  /\ pc = "done"
  /\ fs[DEFAULT_GMRCJS_PATH] = "esm_A"
  /\ Len(loads) = 1
  /\ loads[1].onDisk = "json5_B"
  /\ result = Return("B")

ValidRelaxedJSON == {"json5_A", "json5_B"}

\* C8: getSettingsFromJSON throws "Failed to read '<path>': ..." exactly
\* when the read failed and "Failed to parse '<path>': ..." exactly when the
\* read succeeded and the text is not relaxed JSON; it does not parse after
\* a failed read, and returns the parsed value otherwise.
C8_ReadVsParse ==
  \A k \in DOMAIN loads :
    loads[k].loader = "getSettingsFromJSON" =>
      LET load == loads[k]
          valid == load.onDisk \in ValidRelaxedJSON
          readMsg == <<"Failed to read '">> \o load.path \o <<"': ">>
          parseMsg == <<"Failed to parse '">> \o load.path \o <<"': ">>
      IN /\ ~load.readOk <=> HasPrefix(load.produced.message, readMsg)
         /\ (load.readOk /\ ~valid) <=> HasPrefix(load.produced.message, parseMsg)
         /\ ~load.readOk => ~load.parsed
         /\ (load.readOk /\ valid) =>
              load.produced = Return(IF load.onDisk = "json5_A" THEN "A" ELSE "B")

\* C8 witness: the file was there with valid text and the read failed.
C8_Witness ==
  /\ loads # <<>>
  /\ loads[1].loader = "getSettingsFromJSON"
  /\ ~loads[1].readOk
  /\ loads[1].onDisk = "json5_A"
  /\ result.kind = "throw"

GetSettingsMessages ==
  {"Failed to import '", "Failed to read '", "Failed to parse '",
   "No .gmrc file found; please run "}

\* C9: exists never throws; it returns true when the access check succeeded
\* and false for every failure, and no error of a probe is what getSettings
\* throws.
C9_ExistsTotal ==
  /\ \A i \in DOMAIN probed :
       /\ probed[i].ret.kind = "return"
       /\ probed[i].ret.value \in BOOLEAN
  /\ probed # <<>> => (Found(Len(probed)) <=> lastAccess = "ok")
  /\ result.kind = "throw" => result.message[1] \in GetSettingsMessages

\* C9 witness: the access check of a file that is there failed with
\* EACCES and the probe returned false.
C9_Witness ==
  /\ probed # <<>>
  /\ lastAccess = "EACCES"
  /\ fs[resolve(cwd, probed[Len(probed)].path)] # "absent"
  /\ probed[Len(probed)].ret = [kind |-> "return", value |-> FALSE, error |-> "none"]

\* C10: when the loader of the selected candidate fails, the call is over
\* with that loader's error: no other loader runs and nothing is probed
\* after the candidate.
C10_LoadFailureTerminal ==
  \A k \in DOMAIN loads :
    loads[k].produced.kind = "throw" =>
      /\ pc = "done"
      /\ result = loads[k].produced
      /\ Len(loads) = 1
      /\ probed[Len(probed)].path = loads[k].path

\* C10 witness: .gmrc was found, then removed before it was read; the call
\* failed although .gmrc.js holds a module that would load.
C10_Witness ==
  /\ configFile = null
  /\ pc = "done"
  /\ Len(loads) = 1
  /\ loads[1].path = DEFAULT_GMRC_PATH
  /\ loads[1].onDisk = "absent"
  /\ fs[DEFAULT_GMRCJS_PATH] = "esm_A"
  /\ registry[ExpectedHref(DEFAULT_GMRCJS_PATH)].status = "none"
  /\ result.kind = "throw"

====
